---- MODULE Spec2Model ----
(***************************************************************************)
(* Model of the scraping / enrichment pipeline of this repository:         *)
(*   - the Multi-Source Collector   (src/scraper/scraper.py)               *)
(*   - the spam/quality filter      (src/scraper/text_utils.py)            *)
(*   - the forum search             (src/reddit_search.py)                 *)
(*   - the NLP enrichment engine    (src/nlp/sentiment_analyzer.py)        *)
(*   - the sentiment aggregator     (src/nlp/sentiment_analyzer.py)        *)
(*   - the account-rotation script  (src/twscrape_test.py)                 *)
(* Python dicts are functions on a set of string keys, lists are           *)
(* sequences, None is the string value None.  External collaborators       *)
(* (microblog source, forum source, classifier) are nondeterministic.      *)
(***************************************************************************)
EXTENDS Integers, Sequences, FiniteSets, TLC

(***************************************************************************)
(* Bounds of the model.                                                    *)
(***************************************************************************)
MaxResults == 2      \* max_results ranges over 0..MaxResults
MaxKeywords == 2     \* generated keyword lists hold 0..MaxKeywords phrases, or
                     \* one phrase more than the forum query limit
MaxForumPosts == 2   \* posts the forum searches of one run return in total
MaxStream == 3       \* records one microblog search holds before it is exhausted
MaxPosts == 3        \* input posts of one enrichment
MaxBatchSize == 2    \* batch_size ranges over 1..MaxBatchSize
MaxWorkers == 2      \* max_workers ranges over 1..MaxWorkers
MaxTokens == 5       \* whitespace tokens of a raw text given to is_spammy
MaxTextLen == 4      \* characters of a text given to translate_to_english
MaxQueryWords == 3   \* words of a query given to _simple_keyword_generation
MaxCount == 4        \* max_keywords ranges over 0..MaxCount
MaxLabels == 2       \* results of one classifier answer whose labels are normalized
MaxSourceTweets == 2 \* tweets the search source of twscrape_test holds
MaxTotalLimit == 2   \* total_limit ranges over 1..MaxTotalLimit (the script fixes 100)
MaxPerAccount == 2   \* per_account_limit ranges over 1..MaxPerAccount (the script fixes 500)

(***************************************************************************)
(* Program constants.                                                      *)
(***************************************************************************)
MinCleanedLen == 15      \* text_utils.py:43
MaxHashes == 6           \* text_utils.py:45
MinLinkTokens == 5       \* text_utils.py:49
RedditQueryLimit == 3    \* scraper.py:191
SingleLimitFactor == 5   \* scraper.py:128
KeywordLimitFactor == 2  \* scraper.py:106

MinTranslateLen == 3     \* text_utils.py:29
MinTokenLen == 2         \* scraper.py:47

None == "None"

VARIABLES
    \* ---- Collector (scrape_and_save / fetch_tweets) ----
    cpc,            \* position of the Collector run
    max_results,    \* argument of scrape_and_save
    keywords,       \* None or the generated keyword list
    kw,             \* index of the keyword being fetched (fetch_tweets loop)
    results,        \* fetch_tweets: accepted microblog posts
    fetched,        \* fetch_tweets_for_keyword: results of the current keyword
    yielded,        \* records the current api.search stream has yielded
    rq,             \* index of the forum query being searched
    searched,       \* history: the queries given to search_reddit_query, in order
    reddit_results, \* scrape_and_save: forum items
    combined,       \* the returned combined collection
    fetchlog,       \* history: the source of every record fetched, in fetch order
    failed,         \* history: the sources one of whose collection calls raised
    \* ---- Enrichment (process_dataframe) and aggregation ----
    epc,            \* position of process_dataframe
    raw_tweets,     \* argument of process_dataframe: the input post dicts
    texts,          \* df['text'].tolist(), one text per input post
    batch_size,     \* argument of process_dataframe
    max_workers,    \* argument of process_dataframe
    status,         \* per batch: queued, running or done in the thread pool
    batch_out,      \* per batch: the list process_batch returned
    completed,      \* history: batch numbers in the order their workers returned
    outcomes,       \* history: per batch, what the classifier call did
    merge_order,    \* batch numbers in the order sentiments.extend took them
    sentiments,     \* process_dataframe.sentiments
    df,             \* the data frame returned, one row per post
    buckets,        \* result of get_sentiment_buckets(df)
    \* ---- a text utility called on its own ----
    ppc,            \* position of the call
    arg,            \* the function called and its arguments
    ret,            \* the value returned
    calls,          \* history: the external services the call has used
    \* ---- the account-rotation script (twscrape_test.main) ----
    tpc,            \* position of main
    source,         \* the ids of the tweets the search source holds
    total_limit,    \* main.total_limit
    per_account_limit,     \* main.per_account_limit
    total_scraped,         \* main.total_scraped
    account_index,         \* main.account_index, modulo len(accounts)
    scraped_this_account,  \* main.scraped_this_account
    streamed,       \* tweets the current api.search stream has yielded
    scraped_ids,    \* module-level scraped_ids
    scraped         \* module-level results list of the script

cvars == <<cpc, max_results, keywords, kw, results, fetched, yielded, rq, searched,
           reddit_results, combined, fetchlog, failed>>

evars == <<epc, raw_tweets, texts, batch_size, max_workers, status, batch_out, completed,
           outcomes, merge_order, sentiments, df, buckets>>

pvars == <<ppc, arg, ret, calls>>

tvars == <<tpc, source, total_limit, per_account_limit, total_scraped, account_index,
           scraped_this_account, streamed, scraped_ids, scraped>>

vars == <<cvars, evars, pvars, tvars>>

\* serial number of the last record a source returned
nfetch == Len(fetchlog)

(***************************************************************************)
(* Python helpers.                                                         *)
(***************************************************************************)
\* dict.get(key, default)
Get(d, k, default) == IF k \in DOMAIN d THEN d[k] ELSE default

Max(a, b) == IF a >= b THEN a ELSE b

\* lst[:n]
Take(s, n) == SubSeq(s, 1, IF n < Len(s) THEN n ELSE Len(s))

\* Optional[List[str]]: None is [given |-> FALSE], a list l is
\* [given |-> TRUE, list |-> l]
NoList == [given |-> FALSE, list |-> <<>>]
SomeList(l) == [given |-> TRUE, list |-> l]

\* truthiness of an optional list: None and [] are both false
Truthy(l) == l.given /\ l.list # <<>>

(***************************************************************************)
(* Raw texts.  A raw text is described by the measurements is_spammy takes *)
(* of it: the length of clean_text(raw).strip(), raw.count("#"), whether   *)
(* raw.strip() consists of hashtag tokens only, whether "http" occurs in   *)
(* raw, len(raw.split()), and whether raw.lower().strip() starts "rt ".    *)
(***************************************************************************)
GoodText ==
    [name |-> "good", cleanedLen |-> 20, hashes |-> 0, onlyHashtags |-> FALSE,
     hasHttp |-> FALSE, tokens |-> 5, startsRt |-> FALSE]
ShortText ==
    [name |-> "short", cleanedLen |-> 4, hashes |-> 0, onlyHashtags |-> FALSE,
     hasHttp |-> FALSE, tokens |-> 1, startsRt |-> FALSE]
RetweetText ==
    [name |-> "retweet", cleanedLen |-> 22, hashes |-> 1, onlyHashtags |-> FALSE,
     hasHttp |-> FALSE, tokens |-> 6, startsRt |-> TRUE]

RawTexts == {GoodText, ShortText, RetweetText}

\* mutant of is_spammy: a link text of exactly MinLinkTokens tokens is spam too
IsSpammyTextLinkLimit(raw) ==
    \/ raw.cleanedLen < MinCleanedLen
    \/ raw.hashes > MaxHashes
    \/ raw.onlyHashtags
    \/ (raw.hasHttp /\ raw.tokens <= MinLinkTokens)
    \/ raw.startsRt

\* text_utils.is_spammy, on the raw text
IsSpammyText(raw) ==
    \/ raw.cleanedLen < MinCleanedLen
    \/ raw.hashes > MaxHashes
    \/ raw.onlyHashtags
    \/ (raw.hasHttp /\ raw.tokens < MinLinkTokens)
    \/ raw.startsRt

\* text_utils.is_spammy(tweet): raw = getattr(tweet, "rawContent", "") or ""
is_spammy(tweet) == IsSpammyText(tweet.rawContent)

(***************************************************************************)
(* Raw texts in full.  A raw text is the sequence of its whitespace        *)
(* tokens, joined by single blanks; the operators below are the results of *)
(* is_spammy's and clean_text's string operations on each token.           *)
(***************************************************************************)
TokenPool == {"launched", "RT", "#ai", "#a#b#c#d#e#f#g", "https://t.co/x", "http"}

\* token.count("#")
CountHash(t) == CASE t = "#ai" -> 1 [] t = "#a#b#c#d#e#f#g" -> 7 [] OTHER -> 0

\* the token matches one or more hashtags, a # and word characters each
IsHashtags(t) == t \in {"#ai", "#a#b#c#d#e#f#g"}

\* the token is a URL, a scheme http or https, then :// and non-blanks
IsUrl(t) == t = "https://t.co/x"

\* "http" in token
HasHttp(t) == t \in {"https://t.co/x", "http"}

\* token.lower()
LowerToken(t) == IF t = "RT" THEN "rt" ELSE t

\* number of characters clean_text leaves of the token: URLs and hashtags
\* are removed, a word stays
CleanedTokenLen(t) ==
    CASE t = "launched" -> 8 [] t = "RT" -> 2 [] t = "http" -> 4 [] OTHER -> 0

RECURSIVE CleanedChars(_)
CleanedChars(raw) ==
    IF raw = <<>> THEN 0 ELSE CleanedTokenLen(Head(raw)) + CleanedChars(Tail(raw))

RECURSIVE CountHashes(_)
CountHashes(raw) == IF raw = <<>> THEN 0 ELSE CountHash(Head(raw)) + CountHashes(Tail(raw))

\* len(clean_text(raw).lower().strip()): the tokens left, one blank between
\* two of them
CleanedLen(raw) ==
    LET left == Cardinality({i \in 1..Len(raw) : CleanedTokenLen(raw[i]) > 0}) IN
    IF left = 0 THEN 0 ELSE CleanedChars(raw) + left - 1

\* the measurements is_spammy takes of a raw text
Measure(raw) ==
    [cleanedLen |-> CleanedLen(raw),
     hashes |-> CountHashes(raw),
     onlyHashtags |-> raw # <<>> /\ \A i \in 1..Len(raw) : IsHashtags(raw[i]),
     hasHttp |-> \E i \in 1..Len(raw) : HasHttp(raw[i]),
     tokens |-> Len(raw),
     startsRt |-> Len(raw) >= 2 /\ LowerToken(raw[1]) = "rt"]

\* getattr(tweet, "rawContent", "") or ""
RawContent(tweet) == Get(tweet, "rawContent", <<>>)

\* the raw texts of up to n tokens
RawTokenTexts(n) == UNION {[1..k -> TokenPool] : k \in 0..n}

(***************************************************************************)
(* The microblog source.  api.search yields Tweet objects; fmtError marks  *)
(* a tweet whose formatting raises (caught per tweet by the collector).    *)
(* seq is the serial number of the record in fetch order (history).        *)
(***************************************************************************)
TweetIds == {"t1", "t2"}

Tweets(n) ==
    {[id |-> i, rawContent |-> GoodText, fmtError |-> FALSE, seq |-> n] : i \in TweetIds}
    \cup {[id |-> "t1", rawContent |-> RetweetText, fmtError |-> FALSE, seq |-> n],
          [id |-> "t2", rawContent |-> GoodText, fmtError |-> TRUE, seq |-> n]}

\* text_utils.format_tweet plus formatted["source"] = "twitter"
format_tweet(tweet, query, index) ==
    [id |-> tweet.id, source |-> "twitter", raw_text |-> tweet.rawContent,
     query |-> query, tweet_count |-> index + 1, seq |-> tweet.seq]

\* Body of the "async for tweet in api.search(...)" loops: a tweet that is not
\* spammy and formats without error is appended, any other is skipped.
AcceptTweet(res, tweet, query) ==
    IF ~is_spammy(tweet) /\ ~tweet.fmtError
    THEN Append(res, format_tweet(tweet, query, Len(res)))
    ELSE res

(***************************************************************************)
(* Inputs of a Collector run.                                              *)
(***************************************************************************)
Query == "q"
AllKeywords == <<"k1", "k2", "k3", "k4", "k5", "k6", "k7">>

\* keywords is None (use_llm_keywords false, or generation failed) or the
\* list generate_search_terms returned
KeywordLists ==
    {NoList} \cup {SomeList(Take(AllKeywords, n)) : n \in 0..MaxKeywords}
             \cup {SomeList(Take(AllKeywords, RedditQueryLimit + 1))}

\* fetch_tweets: per_kw = max(1, max_results // max(1, len(keywords)))
per_kw == Max(1, max_results \div Max(1, Len(keywords.list)))

\* mutant of the merge: every fetched post is appended
MergeFetchedAll(res, f) == res \o f

\* fetch_tweets: "avoid duplicates by id" merge of one keyword's results
RECURSIVE MergeFetched(_, _)
MergeFetched(res, f) ==
    IF f = <<>> THEN res
    ELSE LET ft == Head(f)
             existing_ids == {res[i].id : i \in 1..Len(res)}
         IN  MergeFetched(IF ft.id \notin existing_ids THEN Append(res, ft) ELSE res,
                          Tail(f))

(***************************************************************************)
(* The forum source.  search_reddit_query returns the post_data dicts it   *)
(* built before the listing ended or raised (it catches every exception).  *)
(* composed stands for title + body + first comments.                      *)
(***************************************************************************)
ForumPosts == {[id |-> "r1", composed |-> GoodText], [id |-> "r2", composed |-> ShortText]}

post_data(i, text, n) ==
    [id |-> i, source |-> "reddit", subreddit |-> "all", composed |-> text,
     score |-> 1, created_utc |-> 0, seq |-> n]

\* the listings of len posts one search can return: a listing holds a post once
RECURSIVE ForumListings(_, _)
ForumListings(n, len) ==
    IF len = 0 THEN {<<>>}
    ELSE UNION {{Append(l, post_data(p.id, p.composed, n + len)) :
                   p \in {q \in ForumPosts : \A i \in 1..Len(l) : l[i].id # q.id}} :
                l \in ForumListings(n, len - 1)}

\* what one call of search_reddit_query can return, and whether the listing
\* raised (room: the posts the forum can still return in this run)
search_reddit_query(n, room) ==
    {[posts |-> l, raised |-> r] :
        l \in UNION {ForumListings(n, len) : len \in 0..room},
        r \in BOOLEAN}

\* scrape_and_save: the item built from one forum post (record is history:
\* the id of the post_data dict the item was built from)
RedditItem(p, q) ==
    [id |-> Get(p, "post_id", None), source |-> "reddit",
     subreddit |-> Get(p, "subreddit", None), raw_text |-> p.composed,
     query |-> q, score |-> Get(p, "score", None),
     created_at |-> Get(p, "created_utc", None),
     url |-> <<"https://reddit.com/", Get(p, "post_id", None)>>, seq |-> p.seq,
     record |-> p.id]

\* mutant of reddit_qs: every keyword is searched
reddit_qs_unlimited == IF Truthy(keywords) THEN keywords.list ELSE <<Query>>

\* scrape_and_save: reddit_qs = keywords or [query]; reddit_qs[:3]
reddit_qs == Take(IF Truthy(keywords) THEN keywords.list ELSE <<Query>>, RedditQueryLimit)

\* mutant of Combine: the forum items are put first
CombineRedditFirst(tweets, reddit) == reddit \o tweets

\* scrape_and_save step 4: tweets first, then reddit
Combine(tweets, reddit) == tweets \o reddit

(***************************************************************************)
(* The Collector run.                                                      *)
(***************************************************************************)
CollectInit ==
    /\ cpc = "tweets"
    /\ max_results \in 0..MaxResults
    /\ keywords \in KeywordLists
    /\ kw = 1
    /\ results = <<>>
    /\ fetched = <<>>
    /\ yielded = 0
    /\ rq = 1
    /\ searched = <<>>
    /\ reddit_results = <<>>
    /\ combined = <<>>
    /\ fetchlog = <<>>
    /\ failed = {}

\* fetch_tweets returns: scrape_and_save goes on with the forum searches
\* (f is the list the last fetch_tweets_for_keyword returned, if any)
ReturnTweets(res, f) ==
    /\ results' = res
    /\ fetched' = f
    /\ cpc' = "reddit"
    /\ UNCHANGED <<kw, failed>>
    /\ yielded' = 0

\* single pass: the stream yields one more tweet
SingleYield ==
    /\ cpc = "tweets" /\ ~Truthy(keywords)
    /\ yielded < max_results * SingleLimitFactor /\ yielded < MaxStream
    /\ \E t \in Tweets(nfetch + 1) :
         LET res == AcceptTweet(results, t, Query) IN
         /\ fetchlog' = Append(fetchlog, "twitter")
         /\ IF Len(res) >= max_results
            THEN ReturnTweets(res, fetched)
            ELSE /\ results' = res
                 /\ yielded' = yielded + 1
                 /\ UNCHANGED <<cpc, kw, fetched, failed>>
    /\ UNCHANGED <<max_results, keywords, rq, searched, reddit_results, combined>>
    /\ UNCHANGED <<evars, pvars, tvars>>

\* single pass: the stream ends
SingleExhausted ==
    /\ cpc = "tweets" /\ ~Truthy(keywords)
    /\ ReturnTweets(results, fetched)
    /\ UNCHANGED <<max_results, keywords, rq, searched, reddit_results, combined, fetchlog>>
    /\ UNCHANGED <<evars, pvars, tvars>>

\* the stream raises: nothing in fetch_tweets or scrape_and_save catches it
SearchRaises ==
    /\ cpc = "tweets"
    /\ cpc' = "raised"
    /\ failed' = failed \cup {"twitter"}
    /\ UNCHANGED <<max_results, keywords, kw, results, fetched, yielded, rq, searched,
                   reddit_results, combined, fetchlog>>
    /\ UNCHANGED <<evars, pvars, tvars>>

\* keyword mode: fetch_tweets_for_keyword returned f for keyword kw
FinishKeyword(f) ==
    LET res == MergeFetched(results, f) IN
    IF Len(res) >= max_results \/ kw = Len(keywords.list)
    THEN ReturnTweets(res, f)
    ELSE /\ results' = res
         /\ kw' = kw + 1
         /\ fetched' = <<>>
         /\ yielded' = 0
         /\ UNCHANGED <<cpc, failed>>

\* keyword mode: the stream of the current keyword yields one more tweet
KeywordYield ==
    /\ cpc = "tweets" /\ Truthy(keywords)
    /\ yielded < per_kw * KeywordLimitFactor /\ yielded < MaxStream
    /\ \E t \in Tweets(nfetch + 1) :
         LET f == AcceptTweet(fetched, t, keywords.list[kw]) IN
         /\ fetchlog' = Append(fetchlog, "twitter")
         /\ IF Len(f) >= per_kw
            THEN FinishKeyword(f)
            ELSE /\ fetched' = f
                 /\ yielded' = yielded + 1
                 /\ UNCHANGED <<cpc, kw, results, failed>>
    /\ UNCHANGED <<max_results, keywords, rq, searched, reddit_results, combined>>
    /\ UNCHANGED <<evars, pvars, tvars>>

\* keyword mode: the stream of the current keyword ends
KeywordExhausted ==
    /\ cpc = "tweets" /\ Truthy(keywords)
    /\ FinishKeyword(fetched)
    /\ UNCHANGED <<max_results, keywords, rq, searched, reddit_results, combined, fetchlog>>
    /\ UNCHANGED <<evars, pvars, tvars>>

\* one forum search, its posts turned into items; after the last search the
\* collection is combined, saved and returned
RedditSearch ==
    /\ cpc = "reddit"
    /\ \E out \in search_reddit_query(nfetch, MaxForumPosts - Len(reddit_results)) :
         LET items == [i \in 1..Len(out.posts) |-> RedditItem(out.posts[i], reddit_qs[rq])]
             rr == reddit_results \o items
         IN
         /\ searched' = Append(searched, reddit_qs[rq])
         /\ fetchlog' = fetchlog \o [i \in 1..Len(out.posts) |-> "reddit"]
         /\ reddit_results' = rr
         /\ failed' = IF out.raised THEN failed \cup {"reddit"} ELSE failed
         /\ IF rq = Len(reddit_qs)
            THEN /\ combined' = Combine(results, rr)
                 /\ cpc' = "done"
                 /\ UNCHANGED rq
            ELSE /\ rq' = rq + 1
                 /\ UNCHANGED <<cpc, combined>>
    /\ UNCHANGED <<max_results, keywords, kw, results, fetched, yielded>>
    /\ UNCHANGED <<evars, pvars, tvars>>

CollectNext ==
    \/ SingleYield
    \/ SingleExhausted
    \/ SearchRaises
    \/ KeywordYield
    \/ KeywordExhausted
    \/ RedditSearch

(***************************************************************************)
(* Sentiment labels.                                                       *)
(***************************************************************************)
Canonical == {"POSITIVE", "NEGATIVE", "NEUTRAL"}

\* LABEL_MAP_CARDIFF
LABEL_MAP_CARDIFF ==
    [l \in {"LABEL_0", "LABEL_1", "LABEL_2"} |->
        CASE l = "LABEL_0" -> "NEGATIVE"
          [] l = "LABEL_1" -> "NEUTRAL"
          [] l = "LABEL_2" -> "POSITIVE"]

\* str.upper() on the label strings of the model
Upper(l) ==
    CASE l \in {"positive", "Positive", "POSITIVE"} -> "POSITIVE"
      [] l \in {"negative", "Negative", "NEGATIVE"} -> "NEGATIVE"
      [] l \in {"neutral", "Neutral", "NEUTRAL"} -> "NEUTRAL"
      [] l \in {"weird", "WEIRD"} -> "WEIRD"
      [] l \in {"label_0", "LABEL_0"} -> "LABEL_0"
      [] l \in {"label_1", "LABEL_1"} -> "LABEL_1"
      [] l \in {"label_2", "LABEL_2"} -> "LABEL_2"
      [] OTHER -> l

\* str.lower() on the label strings of the model
Lower(l) ==
    CASE l \in {"positive", "Positive", "POSITIVE"} -> "positive"
      [] l \in {"negative", "Negative", "NEGATIVE"} -> "negative"
      [] l \in {"neutral", "Neutral", "NEUTRAL"} -> "neutral"
      [] l \in {"weird", "WEIRD"} -> "weird"
      [] l \in {"label_0", "LABEL_0"} -> "label_0"
      [] l \in {"label_1", "LABEL_1"} -> "label_1"
      [] l \in {"label_2", "LABEL_2"} -> "label_2"
      [] OTHER -> l

\* mutant of NormalizeLabel: every label outside the map is upper-cased
NormalizeLabelUpperAll(label) ==
    IF label \in DOMAIN LABEL_MAP_CARDIFF THEN LABEL_MAP_CARDIFF[label] ELSE Upper(label)

\* mutant of NormalizeLabel: a named label is passed through without upper-casing
NormalizeLabelNoUpper(label) ==
    IF label \in DOMAIN LABEL_MAP_CARDIFF THEN LABEL_MAP_CARDIFF[label] ELSE label

\* process_batch: "Normalize label names to uppercase"
NormalizeLabel(label) ==
    IF label \in DOMAIN LABEL_MAP_CARDIFF THEN LABEL_MAP_CARDIFF[label]
    ELSE IF Upper(label) \in {"POSITIVE", "NEGATIVE", "NEUTRAL"} THEN Upper(label)
    ELSE IF Lower(label) \in {"positive", "negative", "neutral"} THEN Upper(label)
    ELSE label

\* round(float(score), 3): a score in units of 1/10000 rounded (half to even)
\* to units of 1/1000
Round3(score) ==
    LET q == score \div 10
        r == score % 10
    IN  IF r > 5 \/ (r = 5 /\ q % 2 = 1) THEN q + 1 ELSE q

(***************************************************************************)
(* The classifier.  A text is identified with the result the classifier    *)
(* computes for it; of is the number of the input post (history).          *)
(***************************************************************************)
TextPool ==
    <<[label |-> "LABEL_2", score |-> 9876],
      [label |-> "negative", score |-> 5005],
      [label |-> "weird", score |-> 3333],
      [label |-> "LABEL_1", score |-> 5001]>>

Text(i, t) == [of |-> i, label |-> t.label, score |-> t.score]

\* the input lists: the texts of the pool in turn, from any first text
TextLists(n) ==
    {[i \in 1..n |-> Text(i, TextPool[((i + o) % Len(TextPool)) + 1])] :
        o \in 1..Len(TextPool)}

\* pandas' missing-value marker
NaN == "NaN"

\* The input post a text comes in: a formatted tweet, a forum item (no
\* username), a post with a text only, or a post with no text at all (its
\* text, the empty string, is the last text of the pool).
PostOf(t) ==
    CASE t.label = "LABEL_2" ->
           [text |-> t, username |-> "alice", created_at |-> "2024-01-01",
            url |-> "https://twitter.com/alice/status/t1", source |-> "twitter"]
      [] t.label = "negative" ->
           [text |-> t, created_at |-> "1700000000", url |-> "https://reddit.com/None",
            source |-> "reddit"]
      [] t.label = "weird" -> [text |-> t]
      [] OTHER -> [source |-> "twitter"]

\* the empty string as a text
EmptyText(i) == Text(i, TextPool[Len(TextPool)])

\* the lists of input posts
PostLists(n) == {[i \in 1..n |-> PostOf(tl[i])] : tl \in TextLists(n)}

\* pd.DataFrame(raw_tweets): one column per key of any post, NaN where a post
\* lacks the key
DataFrame(posts) ==
    LET columns == UNION {DOMAIN posts[i] : i \in 1..Len(posts)} IN
    [i \in 1..Len(posts) |->
        [c \in columns |-> IF c \in DOMAIN posts[i] THEN posts[i][c] ELSE NaN]]

\* df['text'] = df.get('text', pd.Series([""] * len(df))).fillna("").astype(str)
TextColumn(posts) ==
    [i \in 1..Len(posts) |->
        IF "text" \in DOMAIN posts[i] THEN posts[i].text ELSE EmptyText(i)]

\* extract_keywords / extract_entities: nothing for the empty text
extract_keywords(t) == IF t.label = "LABEL_1" THEN <<>> ELSE <<"noun phrase">>
extract_entities(t) == IF t.label = "LABEL_1" THEN <<>> ELSE <<<<"Apple", "ORG">>>>

\* process_dataframe.format_output
format_output(row) ==
    [username |-> Get(row, "username", ""), text |-> Get(row, "text", ""),
     sentiment |-> Get(row, "sentiment", ""), score |-> Get(row, "sentiment_score", 0),
     keywords |-> Get(row, "keywords", <<>>), entities |-> Get(row, "entities", <<>>),
     created_at |-> Get(row, "created_at", ""), url |-> Get(row, "url", "")]

\* the row of post i once the unpadded-or-padded sentiment s is assigned
\* (result_of is history: the post the sentiment was computed for)
EnrichedRow(frame_row, t, s) ==
    LET added == {"text", "keywords", "entities", "sentiment", "sentiment_score",
                  "result_of"}
        row == [c \in DOMAIN frame_row \cup added |->
                  CASE c = "text" -> t
                    [] c = "keywords" -> extract_keywords(t)
                    [] c = "entities" -> extract_entities(t)
                    [] c = "sentiment" -> s.label
                    [] c = "sentiment_score" -> s.score
                    [] c = "result_of" -> s.of
                    [] OTHER -> frame_row[c]]
    IN  [c \in DOMAIN row \cup {"readable_output"} |->
            IF c = "readable_output" THEN format_output(row) ELSE row[c]]

\* the result dict the classifier returns for a text
RawResult(t) == [label |-> t.label, score |-> t.score, of |-> t.of, malformed |-> FALSE]

\* a result whose normalization raises (no str label, a score float() rejects)
Malformed == [label |-> "", score |-> 0, of |-> 0, malformed |-> TRUE]

\* what sentiment_pipeline(batch) can do: raise, or return results for the
\* first k texts, the last of which may be malformed
sentiment_pipeline(batch) ==
    {[raises |-> TRUE, res |-> <<>>]}
    \cup {[raises |-> FALSE, res |-> [i \in 1..k |-> RawResult(batch[i])]] :
            k \in 0..Len(batch)}
    \cup {[raises |-> FALSE,
           res |-> [i \in 1..k |-> IF i = k THEN Malformed ELSE RawResult(batch[i])]] :
            k \in 1..Len(batch)}

\* history: raise (the call raised), malformed (normalizing a result raised),
\* short (fewer results than texts) or ok (one well-formed result per text)
OutcomeKind(batch, out) ==
    IF out.raises THEN "raise"
    ELSE IF \E i \in 1..Len(out.res) : out.res[i].malformed THEN "malformed"
    ELSE IF Len(out.res) < Len(batch) THEN "short"
    ELSE "ok"

DefaultSentiment == [label |-> "NEUTRAL", score |-> 0, of |-> 0]

\* [{"label": "NEUTRAL", "score": 0.0}] * n
NeutralFill(n) == [i \in 1..n |-> DefaultSentiment]

\* mutant of the padding: the defaults are put in front
PadFront(s, n) == IF Len(s) < n THEN NeutralFill(n - Len(s)) \o s ELSE s

\* if len(sentiments) < len(df): sentiments.extend(defaults)
PadTail(s, n) == IF Len(s) < n THEN s \o NeutralFill(n - Len(s)) ELSE s

\* process_batch: the entry appended for one result
BatchEntry(r) == [label |-> NormalizeLabel(r.label), score |-> Round3(r.score), of |-> r.of]

\* process_batch: the entries appended before an exception stay in
\* batch_results, and the except branch appends one default per text
process_batch(batch, out) ==
    IF out.raises THEN NeutralFill(Len(batch))
    ELSE LET bad == {i \in 1..Len(out.res) : out.res[i].malformed} IN
         IF bad = {}
         THEN [i \in 1..Len(out.res) |-> BatchEntry(out.res[i])]
         ELSE LET first == CHOOSE i \in bad : \A j \in bad : i <= j IN
              [i \in 1..(first - 1) |-> BatchEntry(out.res[i])] \o NeutralFill(Len(batch))

\* mutant of _batchify: only the full batches are yielded
_batchify_full(lst, size) ==
    [b \in 1..(Len(lst) \div size) |-> SubSeq(lst, (b - 1) * size + 1, b * size)]

\* _batchify: lst[i:i+batch_size] for i in range(0, len(lst), batch_size)
_batchify(lst, size) ==
    [b \in 1..((Len(lst) + size - 1) \div size) |->
        SubSeq(lst, (b - 1) * size + 1,
               IF b * size < Len(lst) THEN b * size ELSE Len(lst))]

Batches == _batchify(texts, batch_size)

Running == {b \in DOMAIN status : status[b] = "running"}

\* mutant of WorkerFree: the pool starts a batch whatever is running
WorkerAlwaysFree == TRUE

\* ThreadPoolExecutor(max_workers=max_workers): a thread is free
WorkerFree == Cardinality(Running) < max_workers

\* mutant of NextResult: the next batch is taken whether or not its worker returned
NextInOrder(b) == b = Len(merge_order) + 1 /\ status[b] # "queued"

\* mutant of NextResult: results are taken in completion order
NextCompleted(b) ==
    /\ status[b] = "done"
    /\ \E k \in 1..Len(completed) :
         /\ completed[k] = b
         /\ \A m \in 1..Len(merge_order) : merge_order[m] # b
         /\ \A j \in 1..(k - 1) : \E m \in 1..Len(merge_order) : merge_order[m] = completed[j]

\* executor.map yields the results in the order of the batches
NextResult(b) == b = Len(merge_order) + 1 /\ status[b] = "done"

\* mutant of get_sentiment_buckets: an unknown sentiment is dropped
RECURSIVE get_sentiment_buckets_drop(_)
get_sentiment_buckets_drop(rows) ==
    IF rows = <<>> THEN [l \in {"POSITIVE", "NEGATIVE", "NEUTRAL"} |-> <<>>]
    ELSE LET row == rows[Len(rows)]
             b == get_sentiment_buckets_drop(SubSeq(rows, 1, Len(rows) - 1))
             sentiment == Upper(Get(row, "sentiment", "NEUTRAL"))
         IN  IF sentiment \notin DOMAIN b THEN b
             ELSE [b EXCEPT ![sentiment] = Append(@, Get(row, "text", ""))]

\* get_sentiment_buckets
RECURSIVE get_sentiment_buckets(_)
get_sentiment_buckets(rows) ==
    IF rows = <<>> THEN [l \in {"POSITIVE", "NEGATIVE", "NEUTRAL"} |-> <<>>]
    ELSE LET row == rows[Len(rows)]
             b == get_sentiment_buckets(SubSeq(rows, 1, Len(rows) - 1))
             sentiment == Upper(Get(row, "sentiment", "NEUTRAL"))
         IN  IF sentiment \notin DOMAIN b
             THEN [b EXCEPT !["NEUTRAL"] = Append(@, Get(row, "text", ""))]
             ELSE [b EXCEPT ![sentiment] = Append(@, Get(row, "text", ""))]

(***************************************************************************)
(* process_dataframe followed by get_sentiment_buckets.                    *)
(***************************************************************************)
EnrichInit ==
    /\ epc = "sentiment"
    /\ \E n \in 0..MaxPosts : raw_tweets \in PostLists(n)
    /\ texts = TextColumn(raw_tweets)
    /\ batch_size \in 1..MaxBatchSize
    /\ max_workers \in 1..MaxWorkers
    /\ status = [b \in DOMAIN Batches |-> "queued"]
    /\ batch_out = [b \in DOMAIN Batches |-> <<>>]
    /\ completed = <<>>
    /\ outcomes = [b \in DOMAIN Batches |-> "none"]
    /\ merge_order = <<>>
    /\ sentiments = <<>>
    /\ df = <<>>
    /\ buckets = <<>>

\* a free worker takes the next queued batch (the pool's queue is FIFO)
StartBatch(b) ==
    /\ epc = "sentiment"
    /\ status[b] = "queued"
    /\ \A c \in 1..(b - 1) : status[c] # "queued"
    /\ WorkerFree
    /\ status' = [status EXCEPT ![b] = "running"]
    /\ UNCHANGED <<epc, raw_tweets, texts, batch_size, max_workers, batch_out, completed,
                   outcomes, merge_order, sentiments, df, buckets>>
    /\ UNCHANGED <<cvars, pvars, tvars>>

\* a worker runs process_batch on its batch and returns
FinishBatch(b) ==
    /\ epc = "sentiment"
    /\ status[b] = "running"
    /\ \E out \in sentiment_pipeline(Batches[b]) :
         /\ batch_out' = [batch_out EXCEPT ![b] = process_batch(Batches[b], out)]
         /\ outcomes' = [outcomes EXCEPT ![b] = OutcomeKind(Batches[b], out)]
    /\ status' = [status EXCEPT ![b] = "done"]
    /\ completed' = Append(completed, b)
    /\ UNCHANGED <<epc, raw_tweets, texts, batch_size, max_workers, merge_order, sentiments,
                   df, buckets>>
    /\ UNCHANGED <<cvars, pvars, tvars>>

\* the caller's loop: sentiments.extend(batch_result)
MergeBatch(b) ==
    /\ epc = "sentiment"
    /\ NextResult(b)
    /\ sentiments' = sentiments \o batch_out[b]
    /\ merge_order' = Append(merge_order, b)
    /\ UNCHANGED <<epc, raw_tweets, texts, batch_size, max_workers, status, batch_out,
                   completed, outcomes, df, buckets>>
    /\ UNCHANGED <<cvars, pvars, tvars>>

\* after the loop: padding, the sentiment columns (a list whose length is not
\* len(df) makes the column assignment raise ValueError), readable output
FinishEnrich ==
    /\ epc = "sentiment"
    /\ Len(merge_order) = Len(Batches)
    /\ LET padded == PadTail(sentiments, Len(texts))
       IN  /\ sentiments' = padded
           /\ IF Len(padded) = Len(texts)
              THEN /\ df' = [i \in 1..Len(texts) |->
                               EnrichedRow(DataFrame(raw_tweets)[i], texts[i], padded[i])]
                   /\ epc' = "done"
              ELSE /\ epc' = "failed"
                   /\ UNCHANGED df
    /\ UNCHANGED <<raw_tweets, texts, batch_size, max_workers, status, batch_out, completed,
                   outcomes, merge_order, buckets>>
    /\ UNCHANGED <<cvars, pvars, tvars>>

\* the aggregator groups the enriched posts
Aggregate ==
    /\ epc = "done"
    /\ buckets' = get_sentiment_buckets(df)
    /\ epc' = "bucketed"
    /\ UNCHANGED <<raw_tweets, texts, batch_size, max_workers, status, batch_out, completed,
                   outcomes, merge_order, sentiments, df>>
    /\ UNCHANGED <<cvars, pvars, tvars>>

EnrichNext ==
    \/ \E b \in DOMAIN status : StartBatch(b)
    \/ \E b \in DOMAIN status : FinishBatch(b)
    \/ \E b \in DOMAIN status : MergeBatch(b)
    \/ FinishEnrich
    \/ Aggregate

(***************************************************************************)
(* A text utility called on its own: is_spammy(tweet).                     *)
(***************************************************************************)
PureIdle ==
    /\ ppc = "idle"
    /\ arg = None
    /\ ret = None
    /\ calls = <<>>

SpamInit ==
    /\ ppc = "call"
    /\ \E tweet \in {[id |-> "t1"]}
                     \cup {[id |-> "t1", rawContent |-> r] : r \in RawTokenTexts(MaxTokens)} :
          arg = [fn |-> "is_spammy", tweet |-> tweet]
    /\ ret = None
    /\ calls = <<>>

CallIsSpammy ==
    /\ ppc = "call"
    /\ arg.fn = "is_spammy"
    /\ ret' = IsSpammyText(Measure(RawContent(arg.tweet)))
    /\ ppc' = "return"
    /\ UNCHANGED <<arg, calls, cvars, evars, tvars>>

(***************************************************************************)
(* A text utility called on its own: translate_to_english(text).  A text   *)
(* is the sequence of its characters.  langdetect.detect and               *)
(* GoogleTranslator.translate are external: each call returns or raises.   *)
(***************************************************************************)
Chars == {" ", "a", "b"}

CharTexts(n) == UNION {[1..k -> Chars] : k \in 0..n}

\* str.lstrip / str.rstrip / str.strip
RECURSIVE lstrip(_)
lstrip(t) == IF t # <<>> /\ Head(t) = " " THEN lstrip(Tail(t)) ELSE t

RECURSIVE rstrip(_)
rstrip(t) ==
    IF t # <<>> /\ t[Len(t)] = " " THEN rstrip(SubSeq(t, 1, Len(t) - 1)) ELSE t

strip(t) == rstrip(lstrip(t))

\* mutant of the guard: only texts of fewer than 2 characters are skipped
TooShortUnderTwo(text) == text = <<>> \/ Len(strip(text)) < MinTranslateLen - 1

\* not text or len(text.strip()) < 3
TooShort(text) == text = <<>> \/ Len(strip(text)) < MinTranslateLen

\* the languages detect answers
Languages == {"en", "fr"}

\* what GoogleTranslator(...).translate(text) returns for a text
Translation(text) == <<"E", "N", ":">> \o text

TranslateInit ==
    /\ ppc = "call"
    /\ \E t \in CharTexts(MaxTextLen) : arg = [fn |-> "translate_to_english", text |-> t]
    /\ ret = None
    /\ calls = <<>>

\* the try block up to the call of detect
TranslateEnter ==
    /\ ppc = "call"
    /\ arg.fn = "translate_to_english"
    /\ IF TooShort(arg.text)
       THEN ppc' = "return" /\ ret' = arg.text
       ELSE ppc' = "detect" /\ ret' = ret
    /\ UNCHANGED <<arg, calls, cvars, evars, tvars>>

\* lang = detect(text): raises (caught, the text is returned), answers "en"
\* (the text is returned) or another language
Detect ==
    /\ ppc = "detect"
    /\ \E out \in Languages \cup {"raise"} :
          /\ calls' = Append(calls, [service |-> "detect", out |-> out])
          /\ IF out \in {"raise", "en"}
             THEN ppc' = "return" /\ ret' = arg.text
             ELSE ppc' = "translate" /\ ret' = ret
    /\ UNCHANGED <<arg, cvars, evars, tvars>>

\* return GoogleTranslator(source="auto", target="en").translate(text)
Translate ==
    /\ ppc = "translate"
    /\ \E out \in {"ok", "raise"} :
          /\ calls' = Append(calls, [service |-> "translate", out |-> out])
          /\ ret' = IF out = "ok" THEN Translation(arg.text) ELSE arg.text
    /\ ppc' = "return"
    /\ UNCHANGED <<arg, cvars, evars, tvars>>

TranslateNext == TranslateEnter \/ Detect \/ Translate

(***************************************************************************)
(* The keyword heuristic called on its own:                                *)
(* _simple_keyword_generation(query, max_keywords).  A query is the        *)
(* sequence of its words, joined by single blanks; a phrase of the result  *)
(* is a sequence of words too, so that the query of one word and that word *)
(* as a token are the same phrase.                                         *)
(***************************************************************************)
Words == {"ai", "chip", "maker"}

\* len(word)
WordLen(w) == CASE w = "ai" -> 2 [] w = "chip" -> 4 [] w = "maker" -> 5

Queries(n) == UNION {[1..k -> Words] : k \in 0..n}

\* [t.strip() for t in re.split(r"[\s,./]+", query) if len(t.strip()) > 2]
RECURSIVE Tokenize(_)
Tokenize(query) ==
    IF query = <<>> THEN <<>>
    ELSE (IF WordLen(Head(query)) > MinTokenLen THEN <<Head(query)>> ELSE <<>>)
         \o Tokenize(Tail(query))

\* the phrase made of the token alone, and f"#{t}"
TokenPhrase(t) == <<t>>
HashtagPhrase(t) == <<"#", t>>

\* the for loop over tokens: both forms are appended, and the loop is left
\* as soon as kws holds max_keywords phrases (the test "t.lower() not in
\* query.lower()" is false for every token, a token being a part of the query)
RECURSIVE AppendTokens(_, _, _)
AppendTokens(kws, tokens, n) ==
    IF tokens = <<>> THEN kws
    ELSE LET more == kws \o <<TokenPhrase(Head(tokens)), HashtagPhrase(Head(tokens))>> IN
         IF Len(more) >= n THEN more ELSE AppendTokens(more, Tail(tokens), n)

\* dedupe while preserving order
RECURSIVE Dedupe(_, _)
Dedupe(out, kws) ==
    IF kws = <<>> THEN out
    ELSE Dedupe(IF \E i \in 1..Len(out) : out[i] = Head(kws) THEN out
                ELSE Append(out, Head(kws)),
                Tail(kws))

_simple_keyword_generation(query, n) ==
    Take(Dedupe(<<>>, AppendTokens(<<query>>, Tokenize(query), n)), n)

KeywordsInit ==
    /\ ppc = "call"
    /\ \E q \in Queries(MaxQueryWords), n \in 0..MaxCount :
          arg = [fn |-> "_simple_keyword_generation", query |-> q, max_keywords |-> n]
    /\ ret = None
    /\ calls = <<>>

CallKeywordGeneration ==
    /\ ppc = "call"
    /\ arg.fn = "_simple_keyword_generation"
    /\ ret' = _simple_keyword_generation(arg.query, arg.max_keywords)
    /\ ppc' = "return"
    /\ UNCHANGED <<arg, calls, cvars, evars, tvars>>

(***************************************************************************)
(* The label normalization of process_batch on its own: the labels of one  *)
(* classifier answer, mapped one by one.                                   *)
(***************************************************************************)
LabelStrings ==
    {"LABEL_0", "LABEL_1", "LABEL_2", "label_0", "label_1", "label_2",
     "positive", "Positive", "POSITIVE", "negative", "Negative", "NEGATIVE",
     "neutral", "Neutral", "NEUTRAL", "weird", "WEIRD", ""}

LabelLists(n) == UNION {[1..k -> LabelStrings] : k \in 1..n}

LabelsInit ==
    /\ ppc = "call"
    /\ \E ls \in LabelLists(MaxLabels) : arg = [fn |-> "normalize", labels |-> ls]
    /\ ret = None
    /\ calls = <<>>

\* for r in res: label = r.get("label", ""); ... mapped_label
NormalizeLabels ==
    /\ ppc = "call"
    /\ arg.fn = "normalize"
    /\ ret' = [i \in 1..Len(arg.labels) |-> NormalizeLabel(arg.labels[i])]
    /\ ppc' = "return"
    /\ UNCHANGED <<arg, calls, cvars, evars, tvars>>

(***************************************************************************)
(* The account-rotation script, twscrape_test.main.  The search source     *)
(* holds a set of tweets; one api.search stream yields some of them, then  *)
(* ends or raises RateLimitError.  account_index is used only modulo       *)
(* len(accounts) and is kept modulo len(accounts).                         *)
(***************************************************************************)
accounts == <<"username1", "username2">>

\* the list of the ids in ids, in increasing order
RECURSIVE Ascending(_)
Ascending(ids) ==
    IF ids = {} THEN <<>>
    ELSE LET m == CHOOSE i \in ids : \A j \in ids : i >= j IN
         Append(Ascending(ids \ {m}), m)

RotateIdle ==
    /\ tpc = "idle"
    /\ source = {}
    /\ total_limit = 1
    /\ per_account_limit = 1
    /\ total_scraped = 0
    /\ account_index = 0
    /\ scraped_this_account = 0
    /\ streamed = 0
    /\ scraped_ids = {}
    /\ scraped = <<>>

\* main is entered: results and scraped_ids hold the tweets of the output
\* file of an earlier run
RotateInit ==
    /\ tpc = "while"
    /\ \E n \in 0..MaxSourceTweets : source = 1..n
    /\ total_limit \in 1..MaxTotalLimit
    /\ per_account_limit \in 1..MaxPerAccount
    /\ total_scraped = 0
    /\ account_index = 0
    /\ scraped_this_account = 0
    /\ streamed = 0
    /\ scraped_ids \in SUBSET source
    /\ scraped = [i \in 1..Cardinality(scraped_ids) |->
                    [id |-> Ascending(scraped_ids)[i], scraped_by |-> "earlier run"]]

\* while total_scraped < total_limit: the next account is activated and a
\* search is started (the condition holds whenever it is tested: it holds at
\* the first test, and the break after the async for leaves the loop before a
\* test that would fail)
StartSearch ==
    /\ tpc = "while"
    /\ total_scraped < total_limit
    /\ tpc' = "stream"
    /\ scraped_this_account' = 0
    /\ streamed' = 0
    /\ UNCHANGED <<source, total_limit, per_account_limit, total_scraped, account_index,
                   scraped_ids, scraped>>
    /\ UNCHANGED <<cvars, evars, pvars>>

\* after the async for: account_index += 1; if total_scraped >= total_limit: break
\* (account_index is only read as account_index % len(accounts), and is kept
\* in that form)
NextAccount(total) ==
    /\ account_index' = (account_index + 1) % Len(accounts)
    /\ tpc' = IF total >= total_limit THEN "save" ELSE "while"

\* the stream yields a tweet: one already scraped is skipped, a new one is
\* appended, and the stream is left once a limit is reached
StreamYield ==
    /\ tpc = "stream"
    /\ streamed < per_account_limit * 2
    /\ \E id \in source :
         IF id \in scraped_ids
         THEN /\ streamed' = streamed + 1
              /\ UNCHANGED <<tpc, total_scraped, account_index, scraped_this_account,
                             scraped_ids, scraped>>
         ELSE /\ scraped' = Append(scraped, [id |-> id,
                                             scraped_by |-> accounts[account_index + 1]])
              /\ scraped_ids' = scraped_ids \cup {id}
              /\ scraped_this_account' = scraped_this_account + 1
              /\ total_scraped' = total_scraped + 1
              /\ IF scraped_this_account + 1 >= per_account_limit
                    \/ total_scraped + 1 >= total_limit
                 THEN NextAccount(total_scraped + 1) /\ streamed' = 0
                 ELSE streamed' = streamed + 1 /\ UNCHANGED <<tpc, account_index>>
    /\ UNCHANGED <<source, total_limit, per_account_limit>>
    /\ UNCHANGED <<cvars, evars, pvars>>

\* the stream ends
StreamExhausted ==
    /\ tpc = "stream"
    /\ NextAccount(total_scraped)
    /\ streamed' = 0
    /\ UNCHANGED <<source, total_limit, per_account_limit, total_scraped,
                   scraped_this_account, scraped_ids, scraped>>
    /\ UNCHANGED <<cvars, evars, pvars>>

\* the stream raises RateLimitError: except RateLimitError logs a warning
RateLimited ==
    /\ tpc = "stream"
    /\ NextAccount(total_scraped)
    /\ streamed' = 0
    /\ UNCHANGED <<source, total_limit, per_account_limit, total_scraped,
                   scraped_this_account, scraped_ids, scraped>>
    /\ UNCHANGED <<cvars, evars, pvars>>

\* "Save results": the output file is written
Save ==
    /\ tpc = "save"
    /\ tpc' = "saved"
    /\ UNCHANGED <<source, total_limit, per_account_limit, total_scraped, account_index,
                   scraped_this_account, streamed, scraped_ids, scraped>>
    /\ UNCHANGED <<cvars, evars, pvars>>

RotateNext ==
    \/ StartSearch
    \/ StreamYield
    \/ StreamExhausted
    \/ RateLimited
    \/ Save

(***************************************************************************)
(* Specifications: one Collector run; one enrichment and aggregation; one  *)
(* call of a text utility; one run of the account-rotation script, in      *)
(* which main always takes its next step and the source always answers.    *)
(***************************************************************************)
CollectIdle ==
    /\ cpc = "idle"
    /\ max_results = 0
    /\ keywords = NoList
    /\ kw = 1
    /\ results = <<>>
    /\ fetched = <<>>
    /\ yielded = 0
    /\ rq = 1
    /\ searched = <<>>
    /\ reddit_results = <<>>
    /\ combined = <<>>
    /\ fetchlog = <<>>
    /\ failed = {}

EnrichIdle ==
    /\ epc = "idle"
    /\ raw_tweets = <<>>
    /\ texts = <<>>
    /\ batch_size = 1
    /\ max_workers = 1
    /\ status = <<>>
    /\ batch_out = <<>>
    /\ completed = <<>>
    /\ outcomes = <<>>
    /\ merge_order = <<>>
    /\ sentiments = <<>>
    /\ df = <<>>
    /\ buckets = <<>>

InitCollect == CollectInit /\ EnrichIdle /\ PureIdle /\ RotateIdle

InitEnrich == EnrichInit /\ CollectIdle /\ PureIdle /\ RotateIdle

InitSpam == SpamInit /\ CollectIdle /\ EnrichIdle /\ RotateIdle

InitTranslate == TranslateInit /\ CollectIdle /\ EnrichIdle /\ RotateIdle

InitKeywords == KeywordsInit /\ CollectIdle /\ EnrichIdle /\ RotateIdle

InitLabels == LabelsInit /\ CollectIdle /\ EnrichIdle /\ RotateIdle

SpecCollect == InitCollect /\ [][CollectNext]_vars

SpecEnrich == InitEnrich /\ [][EnrichNext]_vars

SpecSpam == InitSpam /\ [][CallIsSpammy]_vars

SpecTranslate == InitTranslate /\ [][TranslateNext]_vars

SpecKeywords == InitKeywords /\ [][CallKeywordGeneration]_vars

SpecLabels == InitLabels /\ [][NormalizeLabels]_vars

InitRotate == RotateInit /\ CollectIdle /\ EnrichIdle /\ PureIdle

SpecRotate == InitRotate /\ [][RotateNext]_vars /\ WF_vars(RotateNext)

(***************************************************************************)
(* Claims about the Collector.                                             *)
(***************************************************************************)
Returned == cpc = "done"

\* the microblog list fetch_tweets returned (scrape_and_save: tweets)
TweetsReturned == cpc \in {"reddit", "done"}

\* C1: no two items of the returned combined collection share an id,
\* whichever keyword or source produced them.
C1_NoSharedId ==
    Returned =>
        \A i, j \in 1..Len(combined) : i # j => combined[i].id # combined[j].id

\* C4: the combined collection lists the accepted microblog posts first, in
\* fetch order, then the forum posts, in fetch order; every item carries the
\* source tag of the source that produced it.
C4_TweetsThenReddit ==
    Returned =>
        /\ \A i \in 1..Len(combined) :
             combined[i].source = (IF i <= Len(results) THEN "twitter" ELSE "reddit")
        /\ \A i, j \in 1..Len(combined) :
             (combined[i].source = "reddit" /\ combined[j].source = "twitter") => j < i
        /\ \A i, j \in 1..Len(combined) : i < j => combined[i].seq < combined[j].seq
        /\ \A i \in 1..Len(combined) :
             combined[i].source = fetchlog[combined[i].seq]
        /\ Len(combined) = Len(results) + Len(reddit_results)

\* C4 witness: a returned collection holding two microblog posts of different
\* keywords and two forum posts.
C4_Witness ==
    /\ Returned
    /\ Len(results) = 2 /\ Len(reddit_results) = 2
    /\ results[1].query # results[2].query
    /\ combined[1].source = "twitter" /\ combined[4].source = "reddit"

\* C5: no post on whose raw text is_spammy is true appears in the returned
\* collection, for posts of both sources.
C5_NoSpammyPost ==
    Returned => \A i \in 1..Len(combined) : ~IsSpammyText(combined[i].raw_text)

\* C6: a collection call that fails (one keyword's microblog fetch, one forum
\* search) is caught: the run goes on and returns a collection.
C6_FailureIsCaught ==
    /\ cpc # "raised"
    /\ Returned => rq = Len(reddit_qs)

\* C7: the microblog list fetch_tweets returns never holds more than
\* max_results posts, for every max_results >= 0.
C7_AtMostMaxResults ==
    TweetsReturned => Len(results) <= max_results

(***************************************************************************)
(* Claims about the enrichment and the aggregator.                         *)
(***************************************************************************)
Enriched == epc \in {"done", "bucketed"}

\* the batch whose texts include input post i
BatchOf(i) == ((i - 1) \div batch_size) + 1

\* C2: enrich on N posts always returns exactly N enriched posts, for every
\* batch size and every classifier behaviour per batch; when the classifier
\* raises on every batch, every post is NEUTRAL with score 0.0.
C2_EnrichReturnsN ==
    /\ epc # "failed"
    /\ Enriched => Len(df) = Len(texts)
    /\ (Enriched /\ \A b \in DOMAIN outcomes : outcomes[b] = "raise") =>
         \A i \in 1..Len(df) : df[i].sentiment = "NEUTRAL" /\ df[i].sentiment_score = 0

\* C3: the batch results are concatenated in the order of the input list for
\* every interleaving of the workers, never in completion order.
C3_InputOrder ==
    /\ \A m \in 1..Len(merge_order) : merge_order[m] = m
    /\ \A i, j \in 1..Len(sentiments) :
         (i < j /\ sentiments[i].of # 0 /\ sentiments[j].of # 0) =>
             sentiments[i].of < sentiments[j].of

\* C3 witness: three batches, the second completed before the first, and the
\* enrichment returned the results of posts 1, 2 and 3 in input order.
C3_Witness ==
    /\ epc = "done"
    /\ Len(Batches) = 3
    /\ completed[1] = 2
    /\ \A i \in 1..3 : df[i].result_of = i

\* C8 as stated: every enriched post's sentiment label is one of POSITIVE,
\* NEGATIVE, NEUTRAL, for every label string the classifier may return.
C8_LabelCanonical ==
    Enriched => \A i \in 1..Len(df) : df[i].sentiment \in Canonical

\* C8 amended: the label is canonical when the classifier returned LABEL_0,
\* LABEL_1 or LABEL_2 or a label that is a canonical name up to case, or when
\* the NEUTRAL default was used; any other label is kept unchanged.
C8_LabelCanonicalOrKept ==
    Enriched =>
        \A i \in 1..Len(df) :
            IF df[i].result_of = 0 THEN df[i].sentiment = "NEUTRAL"
            ELSE LET raw == texts[df[i].result_of].label IN
                 IF raw \in {"LABEL_0", "LABEL_1", "LABEL_2"} \/ Upper(raw) \in Canonical
                 THEN df[i].sentiment \in Canonical
                 ELSE df[i].sentiment = raw

\* C8 witness: an enrichment returned one post with an unknown label kept as
\* is, and one whose lower-case label was made canonical.
C8_Witness ==
    /\ Enriched
    /\ \E i, j \in 1..Len(df) :
         /\ df[i].sentiment = "weird"
         /\ df[j].sentiment = "NEGATIVE" /\ df[j].result_of = j
         /\ texts[j].label = "negative"

\* C9: on a batch-level classifier failure (the except branch of
\* process_batch ran), every item of the failing batch is NEUTRAL/0.0, the
\* enrichment does not fail, and the items of every batch the classifier
\* answered keep their own results.
C9_BatchFailureNeutral ==
    (\E b \in DOMAIN outcomes : outcomes[b] \in {"raise", "malformed"}) =>
        /\ epc # "failed"
        /\ Enriched =>
             \A i \in 1..Len(df) :
                 /\ outcomes[BatchOf(i)] \in {"raise", "malformed"} =>
                      (df[i].sentiment = "NEUTRAL" /\ df[i].sentiment_score = 0
                       /\ df[i].result_of = 0)
                 /\ outcomes[BatchOf(i)] = "ok" =>
                      (df[i].result_of = i
                       /\ df[i].sentiment = NormalizeLabel(texts[i].label))

\* the bucket the aggregator contract gives a label
BucketOf(label) == IF label \in Canonical THEN label ELSE "NEUTRAL"

\* C10: the buckets have exactly the keys POSITIVE, NEGATIVE, NEUTRAL; each
\* post's text is in exactly one bucket, that of its label, or NEUTRAL for any
\* other label; the bucket sizes sum to the number of posts.
C10_Buckets ==
    epc = "bucketed" =>
        /\ DOMAIN buckets = Canonical
        /\ \A i \in 1..Len(df) :
             /\ \E k \in 1..Len(buckets[BucketOf(df[i].sentiment)]) :
                  buckets[BucketOf(df[i].sentiment)][k] = df[i].text
             /\ \A l \in Canonical \ {BucketOf(df[i].sentiment)} :
                  \A k \in 1..Len(buckets[l]) : buckets[l][k] # df[i].text
        /\ Len(buckets["POSITIVE"]) + Len(buckets["NEGATIVE"]) + Len(buckets["NEUTRAL"])
             = Len(df)

\* C10 witness: the posts carry the labels POSITIVE, weird and NEUTRAL, and the
\* text of the post labelled weird is in the NEUTRAL bucket.
C10_Witness ==
    /\ epc = "bucketed"
    /\ Len(df) = 3
    /\ df[1].sentiment = "POSITIVE" /\ df[2].sentiment = "weird"
    /\ df[3].sentiment = "NEUTRAL"
    /\ buckets["NEUTRAL"] = <<df[2].text, df[3].text>>
    /\ buckets["POSITIVE"] = <<df[1].text>>

\* the fields format_output copies from the input post
CopiedFields == {"username", "created_at", "url"}

\* C11: toReadable yields the defined default ("" for username, text,
\* sentiment, created_at and url, 0.0 for score, [] for keywords and entities)
\* for every field the post is missing, never a missing-value marker, also
\* for a post lacking a field that other posts of the collection have.
C11_ReadableDefaults ==
    Enriched =>
        \A i \in 1..Len(df) :
            LET out == df[i].readable_output IN
            /\ DOMAIN out = {"username", "text", "sentiment", "score", "keywords",
                             "entities", "created_at", "url"}
            /\ \A f \in CopiedFields :
                 out[f] = (IF f \in DOMAIN raw_tweets[i] THEN raw_tweets[i][f] ELSE "")
            /\ out.text = texts[i]
            /\ out.sentiment = df[i].sentiment /\ out.score = df[i].sentiment_score
            /\ out.keywords = df[i].keywords /\ out.entities = df[i].entities

(***************************************************************************)
(* Claims about the text utilities.                                        *)
(***************************************************************************)
SpamReturned == ppc = "return" /\ arg.fn = "is_spammy"

\* the five conditions, read off the raw text; the link of the fourth is a
\* URL when asUrl, the four letters http otherwise
FiveConditions(raw, asUrl) ==
    \/ CleanedLen(raw) < 15
    \/ CountHashes(raw) > 6
    \/ (raw # <<>> /\ \A i \in 1..Len(raw) : IsHashtags(raw[i]))
    \/ /\ \E i \in 1..Len(raw) : IF asUrl THEN IsUrl(raw[i]) ELSE HasHttp(raw[i])
       /\ Len(raw) < 5
    \/ (Len(raw) >= 2 /\ raw[1] \in {"rt", "RT"})

\* C12 (as claimed): is_spammy returns true exactly when at least one of
\* five conditions holds: cleaned text shorter than 15 characters, more than
\* 6 '#' in the raw text, the trimmed raw text made of hashtag tokens only,
\* a raw text containing a link with fewer than 5 whitespace tokens, the
\* trimmed raw text starting with "rt " in any case.
C12_FiveConditions ==
    SpamReturned => (ret <=> FiveConditions(RawContent(arg.tweet), TRUE))

\* C12 (amended): the same with the fourth condition read as the raw text
\* containing the letters http, in a link or not.
C12_FiveConditionsHttp ==
    SpamReturned => (ret <=> FiveConditions(RawContent(arg.tweet), FALSE))

\* a text of three tokens that only the letters http make spam
C12_Witness ==
    /\ SpamReturned
    /\ ret
    /\ RawContent(arg.tweet) = <<"launched", "launched", "http">>
    /\ ~FiveConditions(<<"launched", "launched">>, FALSE)

TranslateReturned == ppc = "return" /\ arg.fn = "translate_to_english"

\* a call of detect or of the translator raised
ServiceFailed == \E i \in 1..Len(calls) : calls[i].out = "raise"

\* C13: translate_to_english never raises to its caller; when detection or
\* translation fails it returns its input unchanged; for the empty text and
\* for a text shorter than 3 characters it returns its input unchanged
\* without calling the detector or the translator.
C13_TranslateSafe ==
    /\ ppc \in {"call", "detect", "translate", "return"}
    /\ Len(arg.text) < 3 => calls = <<>>
    /\ TranslateReturned =>
         /\ ServiceFailed => ret = arg.text
         /\ Len(arg.text) < 3 => ret = arg.text
         /\ ret \in {arg.text, Translation(arg.text)}

\* a text of 3 characters whose translation failed after its language was
\* detected, returned unchanged
C13_Witness ==
    /\ TranslateReturned
    /\ Len(arg.text) = 3
    /\ Len(calls) = 2 /\ calls[2] = [service |-> "translate", out |-> "raise"]
    /\ ret = arg.text

KeywordsReturned == ppc = "return" /\ arg.fn = "_simple_keyword_generation"

\* [query, t1, #t1, t2, #t2, ...] for all the tokens of more than 2 characters
RECURSIVE AllForms(_)
AllForms(tokens) ==
    IF tokens = <<>> THEN <<>>
    ELSE <<TokenPhrase(Head(tokens)), HashtagPhrase(Head(tokens))>> \o AllForms(Tail(tokens))

\* C14: _simple_keyword_generation(query, n) returns the first n elements of
\* the order-preserving de-duplication of [query, t1, #t1, t2, #t2, ...],
\* the ti being all the tokens of the query longer than 2 characters; the
\* result has no duplicates and at most n entries.
C14_KeywordList ==
    KeywordsReturned =>
        /\ ret = Take(Dedupe(<<>>, <<arg.query>> \o AllForms(Tokenize(arg.query))),
                      arg.max_keywords)
        /\ Len(ret) <= arg.max_keywords
        /\ \A i, j \in 1..Len(ret) : ret[i] = ret[j] => i = j

(***************************************************************************)
(* Claims about the enrichment engine, continued.                          *)
(***************************************************************************)
LabelsReturned == ppc = "return" /\ arg.fn = "normalize"

\* C15: label normalization is a fixed function: LABEL_0 -> NEGATIVE,
\* LABEL_1 -> NEUTRAL, LABEL_2 -> POSITIVE; any other label whose upper-cased
\* form is canonical -> that upper-cased form; every other label is returned
\* unchanged; normalizing a normalized label returns it unchanged.
C15_NormalizeFixed ==
    LabelsReturned =>
        \A i \in 1..Len(arg.labels) :
            LET l == arg.labels[i]
                m == ret[i]
            IN  /\ l = "LABEL_0" => m = "NEGATIVE"
                /\ l = "LABEL_1" => m = "NEUTRAL"
                /\ l = "LABEL_2" => m = "POSITIVE"
                /\ (l \notin {"LABEL_0", "LABEL_1", "LABEL_2"} /\ Upper(l) \in Canonical)
                     => m = Upper(l)
                /\ (l \notin {"LABEL_0", "LABEL_1", "LABEL_2"} /\ Upper(l) \notin Canonical)
                     => m = l
                /\ NormalizeLabel(m) = m

\* a mixed-case name upper-cased next to an unknown label that is kept
C15_Witness ==
    /\ LabelsReturned
    /\ arg.labels = <<"Positive", "weird">>
    /\ ret = <<"POSITIVE", "weird">>

\* the results the batch workers returned, in batch order
RECURSIVE ResultsOf(_)
ResultsOf(b) == IF b = 0 THEN <<>> ELSE ResultsOf(b - 1) \o batch_out[b]

ResultsReturned == ResultsOf(Len(batch_out))

\* C16: when the sentiment results are fewer in total than the input posts,
\* the enrichment pads the tail of the result sequence with NEUTRAL / 0.0
\* until the counts match, and every result that was returned stays in place
\* before the padding.
C16_PadsTail ==
    (Enriched /\ Len(ResultsReturned) < Len(texts)) =>
        /\ Len(df) = Len(texts)
        /\ Len(sentiments) = Len(texts)
        /\ \A i \in 1..Len(texts) :
             LET s == IF i <= Len(ResultsReturned) THEN ResultsReturned[i]
                      ELSE [label |-> "NEUTRAL", score |-> 0, of |-> 0]
             IN  /\ sentiments[i] = s
                 /\ df[i].sentiment = s.label
                 /\ df[i].sentiment_score = s.score
                 /\ df[i].result_of = s.of

\* three posts, one result returned (not a default), two defaults padded
C16_Witness ==
    /\ Enriched
    /\ Len(texts) = 3
    /\ Len(ResultsReturned) = 1
    /\ ResultsReturned[1].label = "POSITIVE"
    /\ df[1].sentiment = "POSITIVE"
    /\ df[3].sentiment = "NEUTRAL" /\ df[3].result_of = 0

(***************************************************************************)
(* Claims about the Collector, continued.                                  *)
(***************************************************************************)
\* the accepted microblog posts keyword k contributed
ContributionOf(k) == {i \in 1..Len(results) : results[i].query = keywords.list[k]}

\* C17: in keyword mode the quota is per_keyword = max(1, floor(maxResults /
\* keywordCount)); no keyword contributes more than per_keyword posts, and a
\* post is rejected when its id was already accepted for an earlier keyword
\* of the same run.
C17_KeywordQuota ==
    Truthy(keywords) =>
        LET keywordCount == Len(keywords.list)
            floor == CHOOSE q \in 0..max_results :
                        q * keywordCount <= max_results /\ max_results < (q + 1) * keywordCount
            per_keyword == IF floor >= 1 THEN floor ELSE 1
        IN  /\ \A k \in 1..keywordCount : Cardinality(ContributionOf(k)) <= per_keyword
            /\ \A i, j \in 1..Len(results) : results[i].id = results[j].id => i = j

\* the second keyword's fetch returned a post whose id the first keyword had
\* contributed, and the post was not accepted again
C17_Witness ==
    /\ TweetsReturned /\ Truthy(keywords)
    /\ kw = 2
    /\ Len(fetched) = 1 /\ fetched[1].query = "k2"
    /\ Len(results) = 1 /\ results[1].query = "k1"
    /\ fetched[1].id = results[1].id

\* C18: a Collector run issues the forum search for the first
\* min(3, keywordCount) keywords, in keyword order, and exactly once with the
\* bare query when there are no keywords (list absent or empty); never more
\* than 3 forum searches per run.
C18_ForumSearches ==
    LET keywordCount == IF keywords.given THEN Len(keywords.list) ELSE 0
        planned == IF keywordCount = 0 THEN <<"q">>
                   ELSE [i \in 1..(IF keywordCount < 3 THEN keywordCount ELSE 3) |->
                           keywords.list[i]]
    IN  /\ Len(searched) <= 3
        /\ Len(searched) <= Len(planned)
        /\ \A i \in 1..Len(searched) : searched[i] = planned[i]
        /\ Returned => searched = planned

\* four keywords, of which the first three were searched
C18_Witness ==
    /\ Returned
    /\ keywords.given /\ Len(keywords.list) = 4
    /\ searched = <<"k1", "k2", "k3">>

\* C19 (as claimed): the caller merges batch results only after all workers
\* have returned or failed: no append to the merged sequence happens while
\* any batch worker is still running.
C19_MergeAfterAllWorkers ==
    [][sentiments' # sentiments /\ epc' = "sentiment" => Running = {}]_vars

\* C19 (amended): the caller merges a batch's results only after that batch's
\* own worker has returned or failed, and after every earlier batch was
\* merged; workers of later batches may still be running.
C19_MergeAfterOwnWorker ==
    [][merge_order' # merge_order =>
         \E b \in DOMAIN status :
            /\ merge_order' = Append(merge_order, b)
            /\ b = Len(merge_order) + 1
            /\ status[b] = "done"
            /\ sentiments' = sentiments \o batch_out[b]]_vars

\* batch 1 is merged while the worker of batch 2 is running
C19_Witness ==
    /\ epc = "sentiment"
    /\ merge_order = <<1>>
    /\ sentiments = batch_out[1] /\ sentiments # <<>>
    /\ 2 \in Running

\* C20: at every moment at most max_workers batches are being classified, and
\* no two workers write the same mutable state: a worker writes only the
\* result list of its own batch.
C20_BoundedWorkers ==
    /\ [](Cardinality(Running) <= max_workers)
    /\ [][\A b \in DOMAIN status :
            batch_out'[b] # batch_out[b] =>
               /\ b \in Running
               /\ status'[b] = "done"
               /\ \A c \in DOMAIN status \ {b} : batch_out'[c] = batch_out[c]
               /\ sentiments' = sentiments]_vars

\* both workers are busy and a third batch waits in the queue
C20_Witness ==
    /\ epc = "sentiment"
    /\ max_workers = 2
    /\ Running = {1, 2}
    /\ Len(status) = 3 /\ status[3] = "queued"

\* the batches, concatenated in order
RECURSIVE Concatenated(_, _)
Concatenated(bs, n) == IF n = 0 THEN <<>> ELSE Concatenated(bs, n - 1) \o bs[n]

\* C21: for every input list and every batchSize >= 1, _batchify partitions
\* the ordered text list into consecutive batches: the batches concatenated
\* in order give back the input list, every batch but the last has exactly
\* batchSize items, the last has between 1 and batchSize, and an empty input
\* gives no batch.
C21_BatchifyPartitions ==
    LET batches == _batchify(texts, batch_size) IN
    batch_size >= 1 =>
        /\ Concatenated(batches, Len(batches)) = texts
        /\ \A b \in 1..(Len(batches) - 1) : Len(batches[b]) = batch_size
        /\ Len(batches) > 0 =>
              (1 <= Len(batches[Len(batches)]) /\ Len(batches[Len(batches)]) <= batch_size)
        /\ texts = <<>> => batches = <<>>

\* three texts in batches of two: a full batch and a last batch of one, both
\* classified
C21_Witness ==
    /\ Len(texts) = 3 /\ batch_size = 2
    /\ Len(batch_out) = 2
    /\ Len(Batches[1]) = 2 /\ Len(Batches[2]) = 1
    /\ \A b \in 1..2 : status[b] = "done"

\* C22: process_batch returns exactly len(batch) entries for every batch,
\* whether the classifier call succeeds with one result per item, raises, or
\* an exception occurs while one of its results is normalized part-way
\* through the batch: the results normalized before the exception do not
\* remain in addition to the NEUTRAL / 0.0 fill.
C22_BatchLength ==
    \A b \in DOMAIN outcomes :
        outcomes[b] \in {"ok", "raise", "malformed"} =>
            /\ Len(batch_out[b]) = Len(Batches[b])
            /\ outcomes[b] \in {"raise", "malformed"} =>
                 \A i \in 1..Len(batch_out[b]) : batch_out[b][i] = DefaultSentiment

\* C23: in the output of the enrichment the sentiment at position i belongs
\* to input post i: it is the classifier's normalized result for text i or
\* the NEUTRAL / 0.0 default, never the result computed for another post, for
\* every classifier behaviour, a batch that returns fewer results than it
\* was given included.
C23_SentimentOfPost ==
    Enriched =>
        \A i \in 1..Len(df) :
            \/ /\ df[i].result_of = i
               /\ df[i].sentiment = NormalizeLabel(texts[i].label)
               /\ df[i].sentiment_score = Round3(texts[i].score)
            \/ /\ df[i].result_of = 0
               /\ df[i].sentiment = "NEUTRAL" /\ df[i].sentiment_score = 0

(***************************************************************************)
(* Claims about the forum items of the Collector.                          *)
(***************************************************************************)
\* C24: every forum item of the combined collection carries as its id the id
\* of the forum-source record it was built from (the id search_reddit_query
\* returns for the post); the id is never empty or null, and the item's url
\* is built from that same id.
C24_ForumItemId ==
    Returned =>
        \A i \in 1..Len(combined) :
            combined[i].source = "reddit" =>
                /\ combined[i].id = combined[i].record
                /\ combined[i].id \notin {None, ""}
                /\ combined[i].url = <<"https://reddit.com/", combined[i].record>>

(***************************************************************************)
(* Claims about the account-rotation script.                               *)
(***************************************************************************)
\* C25: the account-rotation scraping loop of twscrape_test.main eventually
\* terminates and reaches the save step, for every behaviour of the search
\* source, also when the source yields fewer than total_limit tweets whose
\* id is not in scraped_ids (source exhausted, or a rate limit on every
\* account).
C25_ReachesSave == <>(tpc = "saved")

====
